---- MODULE Spec2Model ----
(***************************************************************************)
(* Model of meristem-plugin-mnet: the Headscale process supervisor         *)
(* (src/src/headscale-manager.ts), the version gate of the Headscale       *)
(* client (headscale-client.ts) and the DERP relay selector                *)
(* (src/src/derp-manager.ts).                                              *)
(*                                                                         *)
(* JavaScript runs every callback to completion, so each handler is one    *)
(* atomic action; an `await` splits a handler into the part before the     *)
(* suspension and the part after it.                                       *)
(***************************************************************************)
EXTENDS Integers, Sequences, FiniteSets, TLC

(***************************************************************************)
(* Bounds of the model.                                                    *)
(***************************************************************************)
MaxSpawns == 4          \* processFactory calls explored per supervisor
MaxPendingStarts == 2   \* start() calls suspended at the version probe
MaxPendingHealth == 1   \* healthCheck() calls suspended at the health request

(***************************************************************************)
(* Version strings are sequences of characters; null is a sentinel that is *)
(* no character sequence.                                                  *)
(***************************************************************************)
NoVersion == <<"null">>
V_0_24_1 == <<"v", "0", ".", "2", "4", ".", "1">>
V_0_23_0 == <<"v", "0", ".", "2", "3", ".", "0">>
ProbedVersions == {NoVersion, V_0_24_1, V_0_23_0}

Digits == {"0", "1", "2", "3", "4", "5", "6", "7", "8", "9"}
Whitespace == {" ", "\t", "\n"}

RECURSIVE TrimLeft(_)
TrimLeft(s) ==
  IF Len(s) > 0 /\ s[1] \in Whitespace THEN TrimLeft(Tail(s)) ELSE s

RECURSIVE TrimRight(_)
TrimRight(s) ==
  IF Len(s) > 0 /\ s[Len(s)] \in Whitespace
    THEN TrimRight(SubSeq(s, 1, Len(s) - 1))
    ELSE s

Trim(s) == TrimRight(TrimLeft(s))

\* the optional leading v of both patterns
StripV(s) == IF Len(s) > 0 /\ s[1] = "v" THEN Tail(s) ELSE s

\* /^v?0\.2[4-9]\./
MatchesRange024(s) ==
  LET r == StripV(s) IN
    /\ Len(r) >= 5
    /\ r[1] = "0" /\ r[2] = "." /\ r[3] = "2"
    /\ r[4] \in {"4", "5", "6", "7", "8", "9"}
    /\ r[5] = "."

\* /^v?0\.[3-9]\d*\./
MatchesRange03(s) ==
  LET r == StripV(s) IN
    /\ Len(r) >= 4
    /\ r[1] = "0" /\ r[2] = "."
    /\ r[3] \in {"3", "4", "5", "6", "7", "8", "9"}
    /\ \E k \in 4..Len(r) :
         /\ r[k] = "."
         /\ \A j \in 4..(k - 1) : r[j] \in Digits

isCompatibleVersion(value) ==
  LET normalized == Trim(value) IN
    IF Len(normalized) = 0
      THEN FALSE
      ELSE MatchesRange024(normalized) \/ MatchesRange03(normalized)

\* what client.probeVersion() resolves to for a reported version
probeVersion(version) ==
  [compatible |-> IF version # NoVersion /\ Len(version) > 0
                     THEN isCompatibleVersion(version)
                     ELSE FALSE,
   version |-> version]

(***************************************************************************)
(* The supervisor.                                                         *)
(***************************************************************************)
VARIABLES
  maxRestarts,     \* options.maxRestarts ?? 3
  processRef,      \* the held handle: 0 is null, p > 0 is procs[p]
  restartCount,
  status,          \* the published snapshot
  procs,           \* every subprocess the factory produced, in spawn order
  pendingStarts,   \* start() calls awaiting client.probeVersion()
  pendingHealth,   \* healthCheck() calls awaiting client.healthCheck()
  lastOp,          \* the handler that ran last and what it returned
  scenario,        \* exits seen in a run "start(), then only exits of the newest subprocess"
  stoppedQuiet,    \* stop() returned and start() was not called since
  exhausted        \* whether a subprocess exited while restartCount >= maxRestarts:
                   \* "no", "quiet" (no start() awaited its probe then) or "racing"

supVars == <<maxRestarts, processRef, restartCount, status, procs,
             pendingStarts, pendingHealth, lastOp, scenario, stoppedQuiet,
             exhausted>>

NoProcess == 0
DefaultMaxRestarts == 3
Undefined == -1         \* options.maxRestarts not given
MaxRestartsOptions == {Undefined, 0, 1}

\* options.maxRestarts ?? 3
ResolveMaxRestarts(opt) == IF opt = Undefined THEN DefaultMaxRestarts ELSE opt

\* scenario: where a run stands in "one start(), then only exits of the newest subprocess"
ScnFresh == [phase |-> "fresh", exits |-> 0]       \* nothing was called yet
ScnProbing == [phase |-> "probing", exits |-> 0]   \* the first start() awaits its probe
ScnExits(n) == [phase |-> "exits", exits |-> n]    \* started, then n exits of the newest
ScnOther == [phase |-> "other", exits |-> 0]       \* the run left the scenario

ServeArgs == <<"serve", "--config", "configPath">>

InitialStatus ==
  [running |-> FALSE, restartCount |-> 0, compatible |-> FALSE, version |-> NoVersion]

\* faulty variant of updateStatus: the fields next leaves out fall back to
\* their initial values
updateStatus_Forgets(s, next) ==
  [f \in DOMAIN s |-> IF f \in DOMAIN next THEN next[f] ELSE InitialStatus[f]]

\* status = Object.freeze({...status, ...next})
updateStatus(s, next) ==
  [f \in DOMAIN s |-> IF f \in DOMAIN next THEN next[f] ELSE s[f]]

\* the process object the factory returns
NewProcess(args) == [args |-> args, exited |-> FALSE, term |-> FALSE]

\* processFactory({binary, args, env}) appended to the spawn log
processFactory(ps, args) == Append(ps, NewProcess(args))

\* faulty variants of the restart budget test: off by one, and no test at all
BudgetExhausted_OffByOne(rc, max) == rc > max
BudgetExhausted_Never(rc, max) == FALSE

\* the restart budget test of the exit handler
BudgetExhausted(rc, max) == rc >= max

\* faulty variant of the version gate: only an absent version is refused
ProbeRejected_AbsentOnly(version) == version.version = NoVersion

\* the version gate of start(): if (!version.compatible)
ProbeRejected(version) == ~version.compatible

\* faulty variant of the status a successful start() publishes: running is left out
StartedPatch_NotRunning(version) ==
  [compatible |-> TRUE, version |-> version.version]

\* what a successful start() hands to updateStatus
StartedPatch(version) ==
  [running |-> TRUE, compatible |-> TRUE, version |-> version.version]

\* faulty variant of the health test: the status is marked down on success
HealthFailed_Inverted(healthy) == healthy

\* the test of healthCheck() on the client's answer: if (!healthy)
HealthFailed(healthy) == ~healthy

\* kill(signal) on procs[p]: SIGTERM marks the subprocess as told to terminate
kill(ps, p, signal) ==
  IF signal = "SIGTERM" THEN [ps EXCEPT ![p].term = TRUE] ELSE ps

\* a signal delivered by the handler that ran last
Sent(p, signal) == [to |-> p, signal |-> signal]

OpNone == [op |-> "none"]

SupInit ==
  /\ maxRestarts \in {ResolveMaxRestarts(o) : o \in MaxRestartsOptions}
  /\ processRef = NoProcess
  /\ restartCount = 0
  /\ status = InitialStatus
  /\ procs = << >>
  /\ pendingStarts = 0
  /\ pendingHealth = 0
  /\ lastOp = OpNone
  /\ scenario = ScnFresh
  /\ stoppedQuiet = FALSE
  /\ exhausted = "no"

----
\* faulty variant of the test start() opens with: a held handle is overlooked
AlreadyStarted_Never == FALSE

\* if (processRef) at the head of start()
AlreadyStarted == processRef # NoProcess

\* start(), up to the await of the version probe
StartCall ==
  /\ stoppedQuiet' = FALSE
  /\ scenario' = IF scenario = ScnFresh /\ processRef = NoProcess THEN ScnProbing ELSE ScnOther
  /\ IF AlreadyStarted
       THEN /\ lastOp' = [op |-> "start", outcome |-> "noop", ret |-> status]
            /\ UNCHANGED pendingStarts
       ELSE /\ pendingStarts < MaxPendingStarts
            /\ pendingStarts' = pendingStarts + 1
            /\ lastOp' = [op |-> "start", outcome |-> "probing"]
  /\ UNCHANGED <<maxRestarts, processRef, restartCount, status, procs,
                 pendingHealth, exhausted>>

\* start(), the probe was rejected by the transport: the call rejects
StartProbeFailed ==
  /\ pendingStarts > 0
  /\ pendingStarts' = pendingStarts - 1
  /\ lastOp' = [op |-> "start", outcome |-> "transportError"]
  /\ scenario' = ScnOther
  /\ UNCHANGED <<maxRestarts, processRef, restartCount, status, procs,
                 pendingHealth, stoppedQuiet, exhausted>>

\* start(), from the resolution of the version probe to the end
StartResume(reported) ==
  LET version == probeVersion(reported) IN
    /\ pendingStarts > 0
    /\ pendingStarts' = pendingStarts - 1
    /\ IF ProbeRejected(version)
         THEN /\ status' = updateStatus(status,
                             [compatible |-> FALSE, version |-> version.version])
              /\ lastOp' = [op |-> "start", outcome |-> "incompatible",
                            probe |-> version]
              /\ scenario' = ScnOther
              /\ UNCHANGED <<processRef, procs>>
         ELSE /\ Len(procs) < MaxSpawns
              /\ procs' = processFactory(procs, ServeArgs)
              /\ processRef' = Len(procs')
              /\ status' = updateStatus(status, StartedPatch(version))
              /\ lastOp' = [op |-> "start", outcome |-> "spawned",
                            probe |-> version, ret |-> status']
              /\ scenario' = IF scenario = ScnProbing THEN ScnExits(0) ELSE ScnOther
    /\ UNCHANGED <<maxRestarts, restartCount, pendingHealth, stoppedQuiet, exhausted>>

\* the exit observer armed by spawn(), run for subprocess p
ProcessExit(p) ==
  /\ p \in DOMAIN procs
  /\ ~procs[p].exited
  /\ LET exitedProcs == [procs EXCEPT ![p].exited = TRUE]
         down == updateStatus(status, [running |-> FALSE])
     IN
       IF BudgetExhausted(restartCount, maxRestarts)
         THEN /\ status' = down
              /\ procs' = exitedProcs
              /\ lastOp' = [op |-> "exit", outcome |-> "gaveUp"]
              /\ UNCHANGED <<processRef, restartCount>>
         ELSE /\ Len(procs) < MaxSpawns
              /\ restartCount' = restartCount + 1
              /\ procs' = processFactory(exitedProcs, ServeArgs)
              /\ processRef' = Len(procs')
              /\ status' = updateStatus(
                             updateStatus(down, [restartCount |-> restartCount']),
                             [running |-> TRUE])
              /\ lastOp' = [op |-> "exit", outcome |-> "restarted"]
  /\ exhausted' = IF exhausted = "no" /\ restartCount >= maxRestarts
                    THEN (IF pendingStarts = 0 THEN "quiet" ELSE "racing")
                    ELSE exhausted
  /\ scenario' = IF scenario.phase = "exits" /\ p = Len(procs)
                   THEN ScnExits(scenario.exits + 1)
                   ELSE ScnOther
  /\ UNCHANGED <<maxRestarts, pendingStarts, pendingHealth, stoppedQuiet>>

\* faulty variant of RefAtStopSignal: the signal is sent before the reference is cleared
RefAtStopSignal_StillHeld(current) == current

\* what processRef is when stop() calls current.kill('SIGTERM'): it was cleared
\* on the line before
RefAtStopSignal(current) == NoProcess

\* stop()
Stop ==
  /\ IF processRef = NoProcess
       THEN /\ lastOp' = [op |-> "stop", outcome |-> "noop", sent |-> << >>]
            /\ UNCHANGED <<processRef, procs, status>>
       ELSE LET current == processRef IN
            /\ processRef' = NoProcess
            /\ procs' = kill(procs, current, "SIGTERM")
            /\ status' = updateStatus(status, [running |-> FALSE])
            /\ lastOp' = [op |-> "stop", outcome |-> "signalled",
                          sent |-> <<Sent(current, "SIGTERM")>>,
                          refAtSignal |-> RefAtStopSignal(current)]
  /\ stoppedQuiet' = (pendingStarts = 0)
  /\ scenario' = ScnOther
  /\ UNCHANGED <<maxRestarts, restartCount, pendingStarts, pendingHealth, exhausted>>

\* faulty variant of the reload signal: the termination signal is sent
ReloadSignal_Term == "SIGTERM"

\* the signal reloadConfig() sends
ReloadSignal == "SIGHUP"

\* reloadConfig()
ReloadConfig ==
  /\ IF processRef = NoProcess
       THEN /\ lastOp' = [op |-> "reload", outcome |-> "noop", sent |-> << >>]
            /\ UNCHANGED procs
       ELSE /\ procs' = kill(procs, processRef, ReloadSignal)
            /\ lastOp' = [op |-> "reload", outcome |-> "signalled",
                          sent |-> <<Sent(processRef, ReloadSignal)>>]
  /\ scenario' = ScnOther
  /\ UNCHANGED <<maxRestarts, processRef, restartCount, status, pendingStarts,
                 pendingHealth, stoppedQuiet, exhausted>>

\* healthCheck(), up to the await of client.healthCheck()
HealthCall ==
  /\ IF processRef = NoProcess
       THEN /\ status' = updateStatus(status, [running |-> FALSE])
            /\ lastOp' = [op |-> "health", outcome |-> "noHandle", ret |-> FALSE]
            /\ UNCHANGED pendingHealth
       ELSE /\ pendingHealth < MaxPendingHealth
            /\ pendingHealth' = pendingHealth + 1
            /\ lastOp' = [op |-> "health", outcome |-> "asking"]
            /\ UNCHANGED status
  /\ scenario' = ScnOther
  /\ UNCHANGED <<maxRestarts, processRef, restartCount, procs, pendingStarts,
                 stoppedQuiet, exhausted>>

\* healthCheck(), from the resolution of client.healthCheck() to the end
HealthResume(healthy) ==
  /\ pendingHealth > 0
  /\ pendingHealth' = pendingHealth - 1
  /\ status' = IF HealthFailed(healthy)
                 THEN updateStatus(status, [running |-> FALSE])
                 ELSE status
  /\ lastOp' = [op |-> "health", outcome |-> "answered", client |-> healthy,
                ret |-> healthy]
  /\ scenario' = ScnOther
  /\ UNCHANGED <<maxRestarts, processRef, restartCount, procs, pendingStarts,
                 stoppedQuiet, exhausted>>

(***************************************************************************)
(* The DERP relay manager.                                                 *)
(***************************************************************************)
MaxTime == 3            \* now() answers 0..MaxTime, or a time past the default cooldown

DEFAULT_COOLDOWN_MS == 10000

\* a latency is big * Number.MAX_SAFE_INTEGER + small, with small far below it
Latency(big, small) == [big |-> big, small |-> small]
\* faulty variant of MAX_SAFE_INTEGER: a missing entry counts as no latency at all
MAX_SAFE_INTEGER_Zero == Latency(0, 0)

MAX_SAFE_INTEGER == Latency(1, 0)

NoIpv4 == "(undefined)"     \* ipv4 left out
NoNode == "(null)"          \* activeNodeId = null, and a null answer

\* DerpNode values; node ids are non-empty, as parseNode demands
SELF_NODE ==
  [id |-> "self-1", regionId |-> 1, name |-> "relay-self-1",
   hostName |-> "self-1.mesh.local", ipv4 |-> "10.0.0.1",
   stunPort |-> 3478, derpPort |-> 443]
SELF_NODE_2 ==
  [id |-> "self-2", regionId |-> 1, name |-> "relay-self-2",
   hostName |-> "self-2.mesh.local", ipv4 |-> NoIpv4,
   stunPort |-> 3478, derpPort |-> 443]
PUBLIC_NODE ==
  [id |-> "public-1", regionId |-> 2, name |-> "relay-public-1",
   hostName |-> "public-1.mesh.example", ipv4 |-> "203.0.113.10",
   stunPort |-> 3478, derpPort |-> 443]
\* an external node that reuses the id of SELF_NODE in another region
PUBLIC_SELF_NODE ==
  [id |-> "self-1", regionId |-> 2, name |-> "relay-public-self",
   hostName |-> "self-1.mesh.example", ipv4 |-> NoIpv4,
   stunPort |-> 3479, derpPort |-> 8443]

\* JSON values of an external document, each tagged with its typeof
JString(x) == [t |-> "string", s |-> x, n |-> 0]
JNumber(x) == [t |-> "number", s |-> "", n |-> x]
JUndefined == [t |-> "undefined", s |-> "", n |-> 0]

\* the JSON object JSON.stringify writes for a node
JNode(node) ==
  [isObject |-> TRUE,
   id |-> JString(node.id), regionId |-> JNumber(node.regionId),
   name |-> JString(node.name), hostName |-> JString(node.hostName),
   ipv4 |-> IF node.ipv4 = NoIpv4 THEN JUndefined ELSE JString(node.ipv4),
   stunPort |-> JNumber(node.stunPort), derpPort |-> JNumber(node.derpPort)]

\* items no node can be read from: a string regionId, a missing hostName, a bare number
JBadRegion == [JNode(PUBLIC_NODE) EXCEPT !.regionId = JString("2")]
JNoHost == [JNode(PUBLIC_NODE) EXCEPT !.hostName = JUndefined]
JNotObject == [JNode(PUBLIC_NODE) EXCEPT !.isObject = FALSE]

\* what readText(path) can give: kind is how far the text gets through JSON.parse
Doc(kind, items) == [kind |-> kind, items |-> items]
Documents ==
  { Doc("unreadable", << >>),
    Doc("invalidJson", << >>),
    Doc("otherJson", << >>),
    Doc("array", << >>),
    Doc("array", <<JNode(PUBLIC_NODE)>>),
    Doc("objectNodes", <<JNode(PUBLIC_NODE), JNode(PUBLIC_SELF_NODE)>>),
    Doc("objectNodes", <<JNode(SELF_NODE_2), JNode(PUBLIC_NODE), JNode(SELF_NODE_2)>>),
    Doc("array", <<JNode(PUBLIC_NODE), JBadRegion>>),
    Doc("objectNodes", <<JNoHost>>),
    Doc("array", <<JNotObject>>) }

Ok(nodes) == [ok |-> TRUE, nodes |-> nodes, error |-> ""]
Err(message) == [ok |-> FALSE, nodes |-> << >>, error |-> message]

\* parseNode: ok is FALSE where the code returns null
parseNode(value) ==
  LET id == IF value.id.t = "string" THEN value.id.s ELSE ""
      regionIdOk == value.regionId.t = "number"
      name == IF value.name.t = "string" THEN value.name.s ELSE ""
      hostName == IF value.hostName.t = "string" THEN value.hostName.s ELSE ""
      stunPortOk == value.stunPort.t = "number"
      derpPortOk == value.derpPort.t = "number"
  IN
    IF ~value.isObject
      THEN [ok |-> FALSE, node |-> SELF_NODE]
      ELSE IF id = "" \/ ~regionIdOk \/ name = "" \/ hostName = ""
                \/ ~stunPortOk \/ ~derpPortOk
        THEN [ok |-> FALSE, node |-> SELF_NODE]
        ELSE [ok |-> TRUE,
              node |-> [id |-> id, regionId |-> value.regionId.n, name |-> name,
                        hostName |-> hostName,
                        ipv4 |-> IF value.ipv4.t = "string" THEN value.ipv4.s ELSE NoIpv4,
                        stunPort |-> value.stunPort.n,
                        derpPort |-> value.derpPort.n]]

parseNodesFromJson(raw) ==
  IF raw.kind = "invalidJson"
    THEN Err("Invalid public DERP config JSON")
    ELSE IF raw.kind \notin {"array", "objectNodes"}
      THEN Err("Public DERP config must be an array or { nodes: [] }")
      ELSE IF \E i \in DOMAIN raw.items : ~parseNode(raw.items[i]).ok
        THEN Err("Public DERP config contains invalid node item")
        ELSE Ok([i \in DOMAIN raw.items |-> parseNode(raw.items[i]).node])

\* faulty variant of dedupeNodes: the first entry of an id wins
RECURSIVE dedupeNodes_FirstWins(_)
dedupeNodes_FirstWins(nodes) ==
  IF nodes = << >>
    THEN << >>
    ELSE LET front == dedupeNodes_FirstWins(SubSeq(nodes, 1, Len(nodes) - 1))
             node == nodes[Len(nodes)]
         IN IF \E i \in DOMAIN front : front[i].id = node.id
              THEN front
              ELSE Append(front, node)

\* faulty variant of dedupeNodes: nothing is dropped
dedupeNodes_KeepAll(nodes) == nodes

\* dedupeNodes: a Map keeps the place of an id's first entry and the value of its last
RECURSIVE dedupeNodes(_)
dedupeNodes(nodes) ==
  IF nodes = << >>
    THEN << >>
    ELSE LET front == dedupeNodes(SubSeq(nodes, 1, Len(nodes) - 1))
             node == nodes[Len(nodes)]
         IN IF \E i \in DOMAIN front : front[i].id = node.id
              THEN [i \in DOMAIN front |-> IF front[i].id = node.id THEN node ELSE front[i]]
              ELSE Append(front, node)

\* String(regionId) for the region ids in use
RECURSIVE NumberToString(_)
NumberToString(n) ==
  LET digit == <<"0", "1", "2", "3", "4", "5", "6", "7", "8", "9">> IN
    IF n < 10
      THEN digit[n + 1]
      ELSE NumberToString(n \div 10) \o digit[(n % 10) + 1]


\* faulty variant of RegionNode: every entry is filed under region 1
RegionNode_FirstRegion(node) ==
  [Name |-> node.name, RegionID |-> 1, HostName |-> node.hostName,
   IPv4 |-> node.ipv4, STUNPort |-> node.stunPort, RelayPort |-> node.derpPort]

\* the entry groupNodesAsDerpMap writes for a node
RegionNode(node) ==
  [Name |-> node.name, RegionID |-> node.regionId, HostName |-> node.hostName,
   IPv4 |-> node.ipv4, STUNPort |-> node.stunPort, RelayPort |-> node.derpPort]

\* groupNodesAsDerpMap: Regions, a record keyed by String(regionId)
RECURSIVE groupNodesAsDerpMap(_)
groupNodesAsDerpMap(nodes) ==
  IF nodes = << >>
    THEN << >>
    ELSE LET regions == groupNodesAsDerpMap(SubSeq(nodes, 1, Len(nodes) - 1))
             node == nodes[Len(nodes)]
             key == NumberToString(node.regionId)
         IN IF key \notin DOMAIN regions
              THEN [k \in DOMAIN regions \cup {key} |->
                      IF k = key
                        THEN [RegionID |-> node.regionId,
                              RegionCode |-> "region-" \o NumberToString(node.regionId),
                              Nodes |-> <<RegionNode(node)>>]
                        ELSE regions[k]]
              ELSE [regions EXCEPT ![key].Nodes = Append(@, RegionNode(node))]

\* the sign of left - right
LatencySign(left, right) ==
  IF left.big # right.big
    THEN (IF left.big < right.big THEN -1 ELSE 1)
    ELSE IF left.small < right.small THEN -1
         ELSE IF left.small > right.small THEN 1 ELSE 0

\* metrics[id] ?? Number.MAX_SAFE_INTEGER
LatencyOf(metrics, id) ==
  IF id \in DOMAIN metrics THEN metrics[id] ELSE MAX_SAFE_INTEGER

\* sortByLatency: Array.prototype.sort is stable
RECURSIVE sortByLatency(_, _)
sortByLatency(nodes, metrics) ==
  IF nodes = << >>
    THEN << >>
    ELSE LET front == sortByLatency(SubSeq(nodes, 1, Len(nodes) - 1), metrics)
             node == nodes[Len(nodes)]
             \* node goes behind every entry that is not slower than it
             keep == {i \in DOMAIN front :
                        LatencySign(LatencyOf(metrics, front[i].id),
                                    LatencyOf(metrics, node.id)) <= 0}
             at == Cardinality(keep)
         IN SubSeq(front, 1, at) \o <<node>> \o SubSeq(front, at + 1, Len(front))

VARIABLES
  config,          \* options.config
  activeNodeId,
  lastSwitchAt,
  derpOut          \* the call that ran last and what it answered

derpVars == <<config, activeNodeId, lastSwitchAt, derpOut>>

\* options.config.cooldownMs is kept as twice its value, so that 0.5 can be given
NoCooldown == [given |-> FALSE, twice |-> 0]
Cooldown(twice) == [given |-> TRUE, twice |-> twice]
CooldownOptions == {NoCooldown, Cooldown(1), Cooldown(5)}

\* faulty variant of cooldownMs: the configured window is one unit short
cooldownMs_Short ==
  IF config.cooldownMs.given /\ config.cooldownMs.twice > 0
    THEN (config.cooldownMs.twice \div 2) - 1
    ELSE DEFAULT_COOLDOWN_MS

\* cooldownMs: Math.floor of a positive number, else the default
cooldownMs ==
  IF config.cooldownMs.given /\ config.cooldownMs.twice > 0
    THEN config.cooldownMs.twice \div 2
    ELSE DEFAULT_COOLDOWN_MS

NoList == [given |-> FALSE, nodes |-> << >>]
List(nodes) == [given |-> TRUE, nodes |-> nodes]
NoPath == ""             \* publicNodesPath undefined or empty
SomePath == "/tmp/public-derp.json"

Configs ==
  [mode : {"self-hosted-only", "public-only", "hybrid"},
   selfHostedNodes : {<< >>, <<SELF_NODE>>, <<SELF_NODE, SELF_NODE_2, PUBLIC_SELF_NODE>>},
   publicNodes : {NoList, List(<< >>), List(<<PUBLIC_NODE, PUBLIC_SELF_NODE>>)},
   publicNodesPath : {NoPath, SomePath},
   cooldownMs : CooldownOptions]

\* loadPublicNodes, with the document readText gives when it is asked
loadPublicNodes(document) ==
  IF config.publicNodes.given /\ Len(config.publicNodes.nodes) > 0
    THEN Ok(dedupeNodes(config.publicNodes.nodes))
    ELSE IF config.publicNodesPath # NoPath
      THEN IF document.kind = "unreadable"
             THEN Err("readText failed")
             ELSE LET parsed == parseNodesFromJson(document) IN
                    IF parsed.ok THEN Ok(dedupeNodes(parsed.nodes)) ELSE parsed
      ELSE Ok(<< >>)

\* faulty variant of resolveNodesByMode: hybrid mode goes on without external nodes
resolveNodesByMode_HybridLenient(document) ==
  LET selfHosted == dedupeNodes(config.selfHostedNodes)
      publicNodes == loadPublicNodes(document)
  IN
    IF ~publicNodes.ok
      THEN publicNodes
      ELSE IF config.mode = "self-hosted-only"
        THEN Ok(selfHosted)
        ELSE IF config.mode = "public-only"
          THEN IF Len(publicNodes.nodes) = 0
                 THEN Err("public-only mode requires non-empty public DERP source")
                 ELSE publicNodes
          ELSE Ok(dedupeNodes(selfHosted \o publicNodes.nodes))

\* resolveNodesByMode, with the document readText gives when it is asked
resolveNodesByMode(document) ==
  LET selfHosted == dedupeNodes(config.selfHostedNodes)
      publicNodes == loadPublicNodes(document)
  IN
    IF ~publicNodes.ok
      THEN publicNodes
      ELSE IF config.mode = "self-hosted-only"
        THEN Ok(selfHosted)
        ELSE IF config.mode = "public-only"
          THEN IF Len(publicNodes.nodes) = 0
                 THEN Err("public-only mode requires non-empty public DERP source")
                 ELSE publicNodes
          ELSE IF Len(publicNodes.nodes) = 0
            THEN Err("hybrid mode requires non-empty public DERP source")
            ELSE Ok(dedupeNodes(selfHosted \o publicNodes.nodes))

Clock == (0..MaxTime) \cup {DEFAULT_COOLDOWN_MS + MaxTime}
\* two everyday latencies, and one above Number.MAX_SAFE_INTEGER
LatencyValues == {Latency(0, 5), Latency(0, 20), Latency(2, 0)}
\* the latency maps a call can bring: entries for other ids are never read
Metrics(nodes) ==
  UNION {[ids -> LatencyValues] : ids \in SUBSET {nodes[i].id : i \in DOMAIN nodes}}

\* no call has answered, or the caller took the answer
NoAnswer == [op |-> "none"]

DerpInit ==
  /\ config \in Configs
  /\ activeNodeId = NoNode
  /\ lastSwitchAt = 0
  /\ derpOut = NoAnswer

\* faulty variant of the cooldown test: the window is closed at its end (<=)
InCooldown_Inclusive(currentTs, since, window) == currentTs - since <= window

\* faulty variant of the cooldown test: no window at all
InCooldown_Never(currentTs, since, window) == FALSE

\* currentTs - lastSwitchAt < cooldownMs
InCooldown(currentTs, since, window) == currentTs - since < window

\* buildDerpMap()
BuildDerpMap(document) ==
  LET nodes == resolveNodesByMode(document) IN
    /\ derpOut = NoAnswer
    /\ derpOut' = IF nodes.ok
                    THEN [op |-> "build", outcome |-> "map", nodes |-> nodes.nodes,
                          Regions |-> groupNodesAsDerpMap(nodes.nodes)]
                    ELSE [op |-> "build", outcome |-> "error", error |-> nodes.error]
    /\ UNCHANGED <<config, activeNodeId, lastSwitchAt>>

\* faulty variant of findActive: a vanished active node is replaced by the first node
findActive_OrFirst(nodes) ==
  IF \E i \in DOMAIN nodes : nodes[i].id = activeNodeId
    THEN {i \in DOMAIN nodes : nodes[i].id = activeNodeId}
    ELSE {1}

\* the places nodes.find((item) => item.id === activeNodeId) looks through
findActive(nodes) == {i \in DOMAIN nodes : nodes[i].id = activeNodeId}

\* faulty variant of SelectAmong: every answered best node restarts the window
SelectAmong_AlwaysStamps(nodes, ordered, currentTs, latencyMetrics) ==
  LET next == ordered[1]
      held == findActive(nodes)
      out(node, why) ==
        [op |-> "select", outcome |-> why, ret |-> node.id, node |-> node,
         best |-> next.id, at |-> currentTs, nodes |-> nodes,
         metrics |-> latencyMetrics, was |-> activeNodeId, since |-> lastSwitchAt]
  IN IF /\ activeNodeId # NoNode /\ activeNodeId # ""
        /\ activeNodeId # next.id
        /\ InCooldown(currentTs, lastSwitchAt, cooldownMs)
        /\ held # {}
       THEN /\ derpOut' = out(nodes[CHOOSE i \in held : \A j \in held : i <= j],
                              "suppressed")
            /\ UNCHANGED <<config, activeNodeId, lastSwitchAt>>
       ELSE /\ activeNodeId' = next.id
            /\ lastSwitchAt' = currentTs
            /\ derpOut' = out(next, "best")
            /\ UNCHANGED config

\* what selectRelayNode answers and leaves behind, from the resolved nodes on
SelectAmong(nodes, ordered, currentTs, latencyMetrics) ==
  LET next == ordered[1]
      held == findActive(nodes)
      out(node, why) ==
        [op |-> "select", outcome |-> why, ret |-> node.id, node |-> node,
         best |-> next.id, at |-> currentTs, nodes |-> nodes,
         metrics |-> latencyMetrics, was |-> activeNodeId, since |-> lastSwitchAt]
  IN IF /\ activeNodeId # NoNode /\ activeNodeId # ""
        /\ activeNodeId # next.id
        /\ InCooldown(currentTs, lastSwitchAt, cooldownMs)
        /\ held # {}
       THEN \* nodes.find gives the first entry with the active id
            /\ derpOut' = out(nodes[CHOOSE i \in held : \A j \in held : i <= j],
                              "suppressed")
            /\ UNCHANGED <<config, activeNodeId, lastSwitchAt>>
       ELSE /\ IF activeNodeId # next.id
                 THEN /\ activeNodeId' = next.id
                      /\ lastSwitchAt' = currentTs
                 ELSE UNCHANGED <<activeNodeId, lastSwitchAt>>
            /\ derpOut' = out(next, "best")
            /\ UNCHANGED config

\* selectRelayNode(latencyMetrics), with the document readText gives and the
\* time now() answers
SelectRelayNode(document) ==
  \E resolved \in {resolveNodesByMode(document)} :
    /\ derpOut = NoAnswer
    /\ IF ~resolved.ok
         THEN /\ derpOut' = [op |-> "select", outcome |-> "error", error |-> resolved.error]
              /\ UNCHANGED <<config, activeNodeId, lastSwitchAt>>
         ELSE IF Len(resolved.nodes) = 0
           THEN /\ derpOut' = [op |-> "select", outcome |-> "null", ret |-> NoNode]
                /\ UNCHANGED <<config, activeNodeId, lastSwitchAt>>
           ELSE \E latencyMetrics \in Metrics(resolved.nodes) :
                  \E ordered \in {sortByLatency(resolved.nodes, latencyMetrics)} :
                    \E currentTs \in Clock :
                      SelectAmong(resolved.nodes, ordered, currentTs, latencyMetrics)

\* readText is called only when no inline list is given and a path is
ReadsDocument ==
  /\ ~(config.publicNodes.given /\ Len(config.publicNodes.nodes) > 0)
  /\ config.publicNodesPath # NoPath

\* the documents a call can meet: the file may change between calls
DocumentsMet == IF ReadsDocument THEN Documents ELSE {Doc("unreadable", << >>)}

\* the caller takes the answer of the call that ran last
TakeAnswer ==
  /\ derpOut # NoAnswer
  /\ derpOut' = NoAnswer
  /\ UNCHANGED <<config, activeNodeId, lastSwitchAt>>

\* a supervisor that is never called, and a relay manager that is never called
SupIdle == SupInit /\ maxRestarts = DefaultMaxRestarts
DerpIdle == DerpInit /\ config = [mode |-> "self-hosted-only", selfHostedNodes |-> << >>,
                                   publicNodes |-> NoList, publicNodesPath |-> NoPath,
                                   cooldownMs |-> NoCooldown]

vars == <<supVars, derpVars>>

\* the supervisor on its own
Init == SupInit /\ DerpIdle
Next ==
  \/ StartCall /\ UNCHANGED derpVars
  \/ StartProbeFailed /\ UNCHANGED derpVars
  \/ \E reported \in ProbedVersions : StartResume(reported) /\ UNCHANGED derpVars
  \/ \E p \in 1..MaxSpawns : ProcessExit(p) /\ UNCHANGED derpVars
  \/ Stop /\ UNCHANGED derpVars
  \/ ReloadConfig /\ UNCHANGED derpVars
  \/ HealthCall /\ UNCHANGED derpVars
  \/ \E healthy \in BOOLEAN : HealthResume(healthy) /\ UNCHANGED derpVars
Spec == Init /\ [][Next]_vars

\* the relay manager on its own
DerpSpecInit == DerpInit /\ SupIdle
DerpSpecNext ==
  \/ \E document \in DocumentsMet : BuildDerpMap(document) /\ UNCHANGED supVars
  \/ \E document \in DocumentsMet : SelectRelayNode(document) /\ UNCHANGED supVars
  \/ TakeAnswer /\ UNCHANGED supVars
DerpSpec == DerpSpecInit /\ [][DerpSpecNext]_vars

(***************************************************************************)
(* Properties of the supervisor, checked under Spec.                       *)
(***************************************************************************)

\* the step is the exit notification of subprocess p
ExitsIn(p) == ~procs[p].exited /\ procs'[p].exited

\* the step spawned a subprocess
Spawned == Len(procs') > Len(procs)

\* C1: with restart budget left, the exit notification of a subprocess that
\* stop() has terminated does not increment restartCount, neither the counter
\* nor the one getStatus() publishes.
C1_LateExitKeepsRestartCount ==
  [][\A p \in DOMAIN procs :
       (procs[p].term /\ ExitsIn(p) /\ restartCount < maxRestarts)
         => /\ restartCount' = restartCount
            /\ status'.restartCount = status.restartCount]_vars

\* C2: once stop() has returned and until start() is called again, no step
\* spawns a subprocess and running stays false.
C2_StoppedStaysStopped ==
  [][stoppedQuiet => (~Spawned /\ ~status'.running)]_vars

\* C3: after one successful start() followed by maxRestarts + 1 exits, each of
\* the newest subprocess, restartCount is maxRestarts, maxRestarts + 1
\* subprocesses were spawned, running is false and the last exit spawned nothing.
C3_RestartsUpToMax ==
  (scenario.phase = "exits" /\ scenario.exits = maxRestarts + 1)
    => /\ restartCount = maxRestarts
       /\ status.restartCount = maxRestarts
       /\ Len(procs) = maxRestarts + 1
       /\ ~status.running
       /\ lastOp.op = "exit" /\ lastOp.outcome = "gaveUp"

C3_Witness ==
  /\ scenario.phase = "exits" /\ scenario.exits = maxRestarts + 1
  /\ maxRestarts = DefaultMaxRestarts
  /\ \A p \in DOMAIN procs : procs[p].exited

C5_RestartCountMonotoneBounded ==
  [][/\ 0 <= restartCount /\ restartCount <= maxRestarts
     /\ restartCount <= restartCount' /\ restartCount' <= maxRestarts
     /\ status.restartCount = restartCount
     /\ status'.restartCount = restartCount']_vars

C5_Witness ==
  /\ restartCount = maxRestarts /\ maxRestarts >= 1
  /\ lastOp.op = "start" /\ lastOp.outcome = "spawned"
  /\ \E p \in DOMAIN procs : procs[p].term

\* the step is the part of start() that follows the version probe
StartAnswered == lastOp'.op = "start" /\ lastOp'.outcome \in {"incompatible", "spawned"}

\* C6: a start() whose probe reports incompatible fails with the
\* incompatibility error, spawns nothing, stores no handle, and publishes
\* compatible = false with the probed version, running and restartCount as
\* they were.
C6_IncompatibleNeverSpawns ==
  [][(StartAnswered /\ ~lastOp'.probe.compatible)
       => /\ lastOp'.outcome = "incompatible"
          /\ procs' = procs
          /\ processRef' = processRef
          /\ restartCount' = restartCount
          /\ status' = [status EXCEPT !.compatible = FALSE,
                                      !.version = lastOp'.probe.version]]_vars

C6_Witness ==
  /\ lastOp.op = "start" /\ lastOp.outcome = "incompatible"
  /\ lastOp.probe.version = V_0_23_0
  /\ status.version = V_0_23_0 /\ ~status.compatible
  /\ procs = << >>

\* C7: a start() whose probe reports compatible calls the process factory
\* once, with serve --config <configPath>, and returns a status with
\* running = true, compatible = true and the probed version.
C7_CompatibleSpawnsOnce ==
  [][(StartAnswered /\ lastOp'.probe.compatible)
       => /\ lastOp'.outcome = "spawned"
          /\ procs' = Append(procs, [args |-> <<"serve", "--config", "configPath">>,
                                     exited |-> FALSE, term |-> FALSE])
          /\ processRef' = Len(procs')
          /\ lastOp'.ret.running
          /\ lastOp'.ret.compatible
          /\ lastOp'.ret.version = lastOp'.probe.version
          /\ lastOp'.ret = status']_vars

C7_Witness ==
  /\ lastOp.op = "start" /\ lastOp.outcome = "spawned"
  /\ lastOp.ret.version = V_0_24_1
  /\ Len(procs) = 1

\* C8: reloadConfig() leaves restartCount, the status and the handle alone;
\* with a handle held it sends one SIGHUP to it, with none it sends nothing.
C8_ReloadOnlySignals ==
  [][lastOp'.op = "reload"
       => /\ restartCount' = restartCount
          /\ status' = status
          /\ processRef' = processRef
          /\ procs' = procs
          /\ lastOp'.sent = IF processRef # NoProcess
                              THEN <<[to |-> processRef, signal |-> "SIGHUP"]>>
                              ELSE << >>]_vars

C8_Witness ==
  /\ lastOp.op = "reload" /\ Len(lastOp.sent) = 1
  /\ status.running /\ restartCount >= 1

\* C9: healthCheck() spawns nothing and leaves restartCount and the handle
\* alone. With no handle it answers false, marks the status down and asks the
\* client nothing; with a handle it asks the client, answers what the client
\* answers and marks the status down exactly when that is false. Only exit
\* notifications change restartCount.
C9_HealthNeverRestarts ==
  [][/\ lastOp'.op = "health"
          => /\ procs' = procs
             /\ restartCount' = restartCount
             /\ processRef' = processRef
             /\ lastOp'.outcome = "noHandle"
                  => /\ processRef = NoProcess
                     /\ lastOp'.ret = FALSE
                     /\ status' = [status EXCEPT !.running = FALSE]
                     /\ pendingHealth' = pendingHealth
             /\ lastOp'.outcome = "asking"
                  => /\ processRef # NoProcess
                     /\ pendingHealth' = pendingHealth + 1
                     /\ status' = status
             /\ lastOp'.outcome = "answered"
                  => /\ lastOp'.ret = lastOp'.client
                     /\ pendingHealth' = pendingHealth - 1
                     /\ status' = IF lastOp'.client
                                    THEN status
                                    ELSE [status EXCEPT !.running = FALSE]
     /\ restartCount' # restartCount => lastOp'.op = "exit"]_vars

C9_Witness ==
  /\ lastOp.op = "health" /\ lastOp.outcome = "answered" /\ ~lastOp.ret
  /\ processRef # NoProcess /\ ~procs[processRef].exited
  /\ ~status.running
  /\ restartCount < maxRestarts

\* A supervisor whose control plane reports any of a range of versions.
\* the decimal digits of n, as characters
RECURSIVE DigitChars(_)
DigitChars(n) ==
  LET digit == <<"0", "1", "2", "3", "4", "5", "6", "7", "8", "9">> IN
    IF n < 10
      THEN <<digit[n + 1]>>
      ELSE Append(DigitChars(n \div 10), digit[(n % 10) + 1])

\* well-formed versions: major.minor.patch, with or without a leading v, with
\* or without surrounding blanks
MinorNumbers == {0, 3, 9, 23, 24, 29, 30, 100}
SemVers == [major : {0, 1}, minor : MinorNumbers, patch : {0}, v : BOOLEAN, padded : BOOLEAN]

FormatVersion(sv) ==
  LET bare == DigitChars(sv.major) \o <<".">> \o DigitChars(sv.minor)
                \o <<".">> \o DigitChars(sv.patch)
      named == IF sv.v THEN <<"v">> \o bare ELSE bare
  IN IF sv.padded THEN <<" ">> \o named \o <<"\n">> ELSE named

\* version strings that are no version: empty, blank, a word, a lone v
MalformedVersions == {<< >>, <<" ">>, <<"a", "b", "c">>, <<"v">>, <<".", "2", "4", ".">>}

ReportedVersions ==
  {FormatVersion(sv) : sv \in SemVers} \cup MalformedVersions \cup {NoVersion}

VersionNext ==
  \/ StartCall /\ UNCHANGED derpVars
  \/ \E reported \in ReportedVersions : StartResume(reported) /\ UNCHANGED derpVars
  \/ Stop /\ UNCHANGED derpVars

VersionInit == Init /\ maxRestarts = DefaultMaxRestarts

VersionSpec == VersionInit /\ [][VersionNext]_vars

\* A relay manager whose inline external list is its self-hosted list, only
\* asked for topologies.
MaxListLen == 3         \* entries of a configured node list

NodeLists ==
  UNION {[1..n -> {SELF_NODE, SELF_NODE_2, PUBLIC_NODE, PUBLIC_SELF_NODE}] :
           n \in 0..MaxListLen}

MergeInit ==
  /\ \E nodes \in NodeLists :
       \E mode \in {"self-hosted-only", "public-only", "hybrid"} :
         config = [mode |-> mode, selfHostedNodes |-> nodes, publicNodes |-> List(nodes),
                   publicNodesPath |-> NoPath, cooldownMs |-> NoCooldown]
  /\ activeNodeId = NoNode
  /\ lastSwitchAt = 0
  /\ derpOut = NoAnswer
  /\ SupIdle

MergeNext ==
  \/ \E document \in DocumentsMet : BuildDerpMap(document) /\ UNCHANGED supVars
  \/ TakeAnswer /\ UNCHANGED supVars

MergeSpec == MergeInit /\ [][MergeNext]_vars

(***************************************************************************)
(* Properties of the relay selector, checked under DerpSpec.               *)
(***************************************************************************)

\* the step is a selectRelayNode call that answered a node
SelectAnswered ==
  /\ derpOut = NoAnswer
  /\ derpOut'.op = "select"
  /\ derpOut'.outcome \in {"suppressed", "best"}

HasId(nodes, id) == \E i \in DOMAIN nodes : nodes[i].id = id

\* id has the lowest latency among nodes, a missing entry counting as the largest
IsLowestLatency(nodes, metrics, id) ==
  /\ HasId(nodes, id)
  /\ \A i \in DOMAIN nodes :
       LatencySign(LatencyOf(metrics, id), LatencyOf(metrics, nodes[i].id)) <= 0

\* the cooldown half of the hysteresis rule, and the rule without an active node
HysteresisHolds ==
  /\ (/\ activeNodeId # NoNode
      /\ HasId(derpOut'.nodes, activeNodeId)
      /\ derpOut'.at - lastSwitchAt < cooldownMs
      /\ derpOut'.best # activeNodeId)
       => /\ derpOut'.ret = activeNodeId
          /\ activeNodeId' = activeNodeId
          /\ lastSwitchAt' = lastSwitchAt
  /\ activeNodeId = NoNode
       => /\ derpOut'.ret = derpOut'.best
          /\ IsLowestLatency(derpOut'.nodes, derpOut'.metrics, derpOut'.ret)

\* C10 as stated: inside the cooldown a call that prefers another node answers
\* the active node A; a call at or after the end of the cooldown answers the
\* best-ranked node and makes it active with lastSwitchAt = t; with no active
\* node the lowest-latency node is answered.
C10_Hysteresis ==
  [][SelectAnswered =>
       /\ HysteresisHolds
       /\ (activeNodeId # NoNode /\ derpOut'.at - lastSwitchAt >= cooldownMs)
            => /\ derpOut'.ret = derpOut'.best
               /\ activeNodeId' = derpOut'.best
               /\ lastSwitchAt' = derpOut'.at]_vars

\* C10 as amended: as stated, but a call at or after the end of the cooldown
\* sets lastSwitchAt to t only when the best-ranked node differs from A; when
\* it is A, lastSwitchAt stays T.
C10_HysteresisKeepsSwitchTime ==
  [][SelectAnswered =>
       /\ HysteresisHolds
       /\ (activeNodeId # NoNode /\ derpOut'.at - lastSwitchAt >= cooldownMs)
            => /\ derpOut'.ret = derpOut'.best
               /\ activeNodeId' = derpOut'.best
               /\ lastSwitchAt' = IF derpOut'.best = activeNodeId
                                    THEN lastSwitchAt
                                    ELSE derpOut'.at]_vars

C10_Witness ==
  /\ derpOut.op = "select" /\ derpOut.outcome = "suppressed"
  /\ derpOut.ret = activeNodeId /\ derpOut.best # activeNodeId
  /\ derpOut.at - lastSwitchAt = cooldownMs - 1
  /\ cooldownMs = 2

\* the step is a buildDerpMap or selectRelayNode call that ran to its end
DerpAnswered == derpOut = NoAnswer /\ derpOut' # NoAnswer

\* the call of this step met this document
CallMet(document) == BuildDerpMap(document) \/ SelectRelayNode(document)

\* C11: in self-hosted-only mode every buildDerpMap and selectRelayNode call
\* succeeds, whatever the inline external list and the external document are,
\* and works on exactly the deduplicated statically configured nodes.
C11_SelfHostedIgnoresExternal ==
  [][(DerpAnswered /\ config.mode = "self-hosted-only") =>
       /\ derpOut'.outcome # "error"
       /\ derpOut'.outcome # "null" => derpOut'.nodes = dedupeNodes(config.selfHostedNodes)
       /\ derpOut'.outcome = "null" => dedupeNodes(config.selfHostedNodes) = << >>]_vars

\* the external set resolved to no node at all
ExternalEmpty(document) == loadPublicNodes(document) = Ok(<< >>)

\* C12: in public-only and hybrid mode a call whose external node set resolves
\* to no node fails with the configuration error of its mode, answers no
\* topology and no node, and leaves activeNodeId and lastSwitchAt unchanged.
C12_EmptyExternalFails ==
  [][\A document \in DocumentsMet :
       (config.mode # "self-hosted-only" /\ ExternalEmpty(document) /\ CallMet(document)) =>
         /\ derpOut'.outcome = "error"
         /\ derpOut'.error = config.mode \o " mode requires non-empty public DERP source"
         /\ activeNodeId' = activeNodeId
         /\ lastSwitchAt' = lastSwitchAt]_vars

\* a hybrid selector was asked for a node, the external document listed no node
C12_Witness ==
  /\ config.mode = "hybrid"
  /\ config.selfHostedNodes # << >>
  /\ ReadsDocument
  /\ derpOut.op = "select" /\ derpOut.outcome = "error"
  /\ derpOut.error = "hybrid mode requires non-empty public DERP source"

\* buildDerpMap answered a topology
BuildAnswered == derpOut.op = "build" /\ derpOut.outcome = "map"

\* the places of the node entries of a topology: <<region key, index>>
RegionEntries(regions) ==
  UNION {{<<k, j>> : j \in DOMAIN regions[k].Nodes} : k \in DOMAIN regions}

\* the entry at a place is the one written for node
IsEntryOf(regions, place, node) ==
  LET entry == regions[place[1]].Nodes[place[2]] IN
    /\ entry.Name = node.name /\ entry.HostName = node.hostName
    /\ entry.IPv4 = node.ipv4 /\ entry.STUNPort = node.stunPort
    /\ entry.RelayPort = node.derpPort /\ entry.RegionID = node.regionId

\* C13: the regions buildDerpMap answers partition the resolved nodes: every
\* node has its entry in the region keyed by its regionId and in no other,
\* every entry carries the RegionID of its region, there are as many entries as
\* resolved nodes, and a region's code is region-<regionId>.
C13_RegionsPartitionNodes ==
  BuildAnswered =>
    LET regions == derpOut.Regions
        nodes == derpOut.nodes
    IN
      /\ \A i \in DOMAIN nodes :
           /\ NumberToString(nodes[i].regionId) \in DOMAIN regions
           /\ \E place \in RegionEntries(regions) :
                /\ place[1] = NumberToString(nodes[i].regionId)
                /\ IsEntryOf(regions, place, nodes[i])
           /\ \A place \in RegionEntries(regions) :
                IsEntryOf(regions, place, nodes[i])
                  => place[1] = NumberToString(nodes[i].regionId)
      /\ \A k \in DOMAIN regions :
           /\ k = NumberToString(regions[k].RegionID)
           /\ regions[k].RegionCode = "region-" \o k
           /\ \A j \in DOMAIN regions[k].Nodes :
                regions[k].Nodes[j].RegionID = regions[k].RegionID
      /\ Cardinality(RegionEntries(regions)) = Len(nodes)

\* a topology of two regions, one of them with two nodes
C13_Witness ==
  /\ BuildAnswered
  /\ Cardinality(DOMAIN derpOut.Regions) = 2
  /\ \E k \in DOMAIN derpOut.Regions : Len(derpOut.Regions[k].Nodes) = 2

\* C14: deduplication is idempotent. For a list L given as the self-hosted
\* list and as the inline external list, the topology buildDerpMap answers is
\* the topology of L alone; the topology of L concatenated with itself is the
\* topology of L; and dedupeNodes(dedupeNodes(L)) = dedupeNodes(L).
C14_DedupeIdempotent ==
  (BuildAnswered /\ config.publicNodes.given
     /\ config.publicNodes.nodes = config.selfHostedNodes) =>
    LET L == config.selfHostedNodes IN
      /\ derpOut.Regions = groupNodesAsDerpMap(dedupeNodes(L))
      /\ groupNodesAsDerpMap(dedupeNodes(L \o L)) = groupNodesAsDerpMap(dedupeNodes(L))
      /\ dedupeNodes(dedupeNodes(L)) = dedupeNodes(L)

\* a hybrid topology of a list that repeats an id with another value
C14_Witness ==
  /\ BuildAnswered
  /\ config.mode = "hybrid"
  /\ config.publicNodes.nodes = config.selfHostedNodes
  /\ config.selfHostedNodes = <<SELF_NODE, PUBLIC_NODE, PUBLIC_SELF_NODE>>

(***************************************************************************)
(* Properties of the version gate, checked under VersionSpec.              *)
(***************************************************************************)

\* a well-formed version at or above 0.24
AtLeast024(sv) == sv.major >= 1 \/ sv.minor >= 24

\* C15: the probe reports compatible = true for every well-formed version at
\* or above 0.24: 0.24.x to 0.29.x, 0.x with x >= 30 and every major >= 1.
C15_AcceptsFrom024 ==
  [][\A sv \in SemVers :
       (StartAnswered /\ lastOp'.probe.version = FormatVersion(sv) /\ AtLeast024(sv))
         => lastOp'.probe.compatible]_vars

\* C16: the probe reports compatible = false for every well-formed version
\* below 0.24 and for an absent, empty or malformed version, and start()
\* spawns nothing for it.
C16_RejectsBelow024 ==
  [][(/\ StartAnswered
      /\ \/ lastOp'.probe.version \in MalformedVersions \cup {NoVersion}
         \/ \E sv \in SemVers :
              lastOp'.probe.version = FormatVersion(sv) /\ ~AtLeast024(sv))
       => /\ ~lastOp'.probe.compatible
          /\ ~Spawned]_vars

(***************************************************************************)
(* Further properties of the supervisor, checked under Spec.               *)
(***************************************************************************)

\* the step is the part of start() that precedes the version probe
StartCalled == lastOp'.op = "start" /\ lastOp'.outcome \in {"noop", "probing"}

\* C17: start() with a handle held issues no probe, spawns nothing, leaves the
\* handle, restartCount and the status as they are, and returns the status.
C17_StartWhileHeldIsNoop ==
  [][(StartCalled /\ processRef # NoProcess)
       => /\ lastOp'.outcome = "noop"
          /\ pendingStarts' = pendingStarts
          /\ procs' = procs
          /\ processRef' = processRef
          /\ restartCount' = restartCount
          /\ status' = status
          /\ lastOp'.ret = status]_vars

\* start() was called on a running supervisor that has restarted once
C17_Witness ==
  /\ lastOp.op = "start" /\ lastOp.outcome = "noop"
  /\ lastOp.ret = status /\ status.running
  /\ restartCount = 1 /\ processRef = 2

\* C18: a probe is issued exactly by the start() calls that find no handle
\* held, one probe each; a restart on exit issues none; and compatible and
\* version of the status change in no step but one of start().
C18_RestartNeverProbes ==
  [][/\ pendingStarts' > pendingStarts
          <=> (StartCalled /\ processRef = NoProcess)
     /\ pendingStarts' > pendingStarts => pendingStarts' = pendingStarts + 1
     /\ lastOp'.op = "exit"
          => /\ pendingStarts' = pendingStarts
             /\ status'.compatible = status.compatible
             /\ status'.version = status.version
     /\ (status'.compatible # status.compatible \/ status'.version # status.version)
          => lastOp'.op = "start"]_vars

\* a restart while a later start() awaits its probe
C18_Witness ==
  /\ lastOp.op = "exit" /\ lastOp.outcome = "restarted"
  /\ status.version = V_0_24_1 /\ status.compatible /\ status.running
  /\ pendingStarts = 1
  /\ Len(procs) = 2

C20_VanishedActiveSkipsCooldown ==
  [][(/\ SelectAnswered
      /\ activeNodeId # NoNode
      /\ ~HasId(derpOut'.nodes, activeNodeId))
       => /\ derpOut'.outcome = "best"
          /\ derpOut'.ret = derpOut'.best
          /\ derpOut'.ret = derpOut'.nodes[
               CHOOSE i \in DOMAIN derpOut'.nodes :
                 /\ IsLowestLatency(derpOut'.nodes, derpOut'.metrics, derpOut'.nodes[i].id)
                 /\ \A j \in 1..(i - 1) :
                      ~IsLowestLatency(derpOut'.nodes, derpOut'.metrics,
                                       derpOut'.nodes[j].id)].id
          /\ activeNodeId' = derpOut'.best
          /\ lastSwitchAt' = derpOut'.at]_vars

\* inside the window the active node had left the set, and another was answered
C20_Witness ==
  /\ derpOut.op = "select" /\ derpOut.outcome = "best"
  /\ derpOut.was # NoNode
  /\ ~HasId(derpOut.nodes, derpOut.was)
  /\ derpOut.at > derpOut.since
  /\ derpOut.at - derpOut.since < cooldownMs
  /\ activeNodeId = derpOut.ret /\ lastSwitchAt = derpOut.at

\* C21: a selectRelayNode call whose best-ranked node is the active node, or
\* whose switch the cooldown suppresses, leaves activeNodeId and lastSwitchAt
\* as they are. The two are written only together (lastSwitchAt to the current
\* time), in a call that answers a node other than the active one.
C21_SelectorStateFrame ==
  [][SelectAnswered =>
       /\ (derpOut'.best = activeNodeId \/ derpOut'.outcome = "suppressed")
            => (activeNodeId' = activeNodeId /\ lastSwitchAt' = lastSwitchAt)
       /\ lastSwitchAt' # lastSwitchAt => activeNodeId' # activeNodeId
       /\ activeNodeId' # activeNodeId
            => /\ lastSwitchAt' = derpOut'.at
               /\ derpOut'.ret # activeNodeId
               /\ derpOut'.ret = activeNodeId']_vars

\* after the window a call ranked the active node best again: nothing moved
C21_Witness ==
  /\ derpOut.op = "select" /\ derpOut.outcome = "best"
  /\ derpOut.was = derpOut.best /\ activeNodeId = derpOut.was
  /\ derpOut.at - derpOut.since >= cooldownMs
  /\ lastSwitchAt = derpOut.since /\ derpOut.since > 0
  /\ Len(derpOut.nodes) >= 2

\* the sign of "a ranks before b" when a node without an entry in the latency
\* map is taken to be slower than every measured one
MeasuredFirstSign(metrics, a, b) ==
  IF a \in DOMAIN metrics /\ b \in DOMAIN metrics
    THEN LatencySign(metrics[a], metrics[b])
    ELSE IF a \in DOMAIN metrics THEN -1
         ELSE IF b \in DOMAIN metrics THEN 1 ELSE 0

\* C22: without suppression selectRelayNode answers a node of minimum latency
\* over the resolved nodes, a node without an entry in the latency map being
\* slower than any measured one; among equals the earliest resolved node is
\* answered; and null is answered when no node is resolved.
C22_RankingPrefersMeasured ==
  [][/\ (derpOut = NoAnswer /\ derpOut'.op = "select" /\ derpOut'.outcome = "best")
          => \E k \in DOMAIN derpOut'.nodes :
               /\ derpOut'.nodes[k].id = derpOut'.ret
               /\ \A i \in DOMAIN derpOut'.nodes :
                    MeasuredFirstSign(derpOut'.metrics, derpOut'.ret,
                                      derpOut'.nodes[i].id) <= 0
               /\ \A j \in 1..(k - 1) :
                    MeasuredFirstSign(derpOut'.metrics, derpOut'.ret,
                                      derpOut'.nodes[j].id) < 0
     /\ \A document \in DocumentsMet :
          (resolveNodesByMode(document) = Ok(<< >>) /\ SelectRelayNode(document))
            => (derpOut'.outcome = "null" /\ derpOut'.ret = NoNode)]_vars

\* the sign of "a ranks before b" when a node without an entry in the latency
\* map is taken to have latency Number.MAX_SAFE_INTEGER
SentinelSign(metrics, a, b) ==
  LatencySign(IF a \in DOMAIN metrics THEN metrics[a] ELSE Latency(1, 0),
              IF b \in DOMAIN metrics THEN metrics[b] ELSE Latency(1, 0))

\* C22 as amended: as stated, but a node without an entry in the latency map
\* counts as latency Number.MAX_SAFE_INTEGER: it is slower than every node
\* measured below that value and faster than a node measured above it.
C22_RankingBySentinel ==
  [][/\ (derpOut = NoAnswer /\ derpOut'.op = "select" /\ derpOut'.outcome = "best")
          => \E k \in DOMAIN derpOut'.nodes :
               /\ derpOut'.nodes[k].id = derpOut'.ret
               /\ \A i \in DOMAIN derpOut'.nodes :
                    SentinelSign(derpOut'.metrics, derpOut'.ret,
                                 derpOut'.nodes[i].id) <= 0
               /\ \A j \in 1..(k - 1) :
                    SentinelSign(derpOut'.metrics, derpOut'.ret,
                                 derpOut'.nodes[j].id) < 0
     /\ \A document \in DocumentsMet :
          (resolveNodesByMode(document) = Ok(<< >>) /\ SelectRelayNode(document))
            => (derpOut'.outcome = "null" /\ derpOut'.ret = NoNode)]_vars

\* the second resolved node, without an entry, was answered before the first,
\* measured above Number.MAX_SAFE_INTEGER
C22_Witness ==
  /\ derpOut.op = "select" /\ derpOut.outcome = "best"
  /\ Len(derpOut.nodes) >= 2
  /\ derpOut.ret = derpOut.nodes[2].id
  /\ derpOut.ret \notin DOMAIN derpOut.metrics
  /\ derpOut.nodes[1].id \in DOMAIN derpOut.metrics
  /\ derpOut.metrics[derpOut.nodes[1].id] = Latency(2, 0)

\* the external nodes as given, before any deduplication: the inline list when
\* it is not empty, else the items of the document
RawExternal(document) ==
  IF config.publicNodes.given /\ Len(config.publicNodes.nodes) > 0
    THEN config.publicNodes.nodes
    ELSE IF config.publicNodesPath # NoPath
      THEN parseNodesFromJson(document).nodes
      ELSE << >>

\* the places of all in which an id occurs
PlacesOf(all, id) == {i \in DOMAIN all : all[i].id = id}

\* the least and the greatest of a non-empty set of numbers
Least(S) == CHOOSE x \in S : \A y \in S : x <= y
Greatest(S) == CHOOSE x \in S : \A y \in S : x >= y

\* resolved is the last-write-wins deduplication by id of all: the ids of all,
\* each once, in the order of their first entries, each with its last entry
IsLastWriteWins(resolved, all) ==
  /\ {resolved[i].id : i \in DOMAIN resolved} = {all[i].id : i \in DOMAIN all}
  /\ \A i, j \in DOMAIN resolved : i # j => resolved[i].id # resolved[j].id
  /\ \A i \in DOMAIN resolved : resolved[i] = all[Greatest(PlacesOf(all, resolved[i].id))]
  /\ \A i, j \in DOMAIN resolved :
       i < j => Least(PlacesOf(all, resolved[i].id)) < Least(PlacesOf(all, resolved[j].id))

\* C23: in hybrid mode the resolved nodes are the last-write-wins
\* deduplication by id of the self-hosted nodes followed by the external
\* nodes: an external node replaces the data of a self-hosted node of the same
\* id, at the place of the id's first entry. A call is matched with every
\* document that resolves to the nodes it worked on.
C23_HybridLastWriteWins ==
  [][\A document \in DocumentsMet :
       (/\ config.mode = "hybrid"
        /\ DerpAnswered
        /\ derpOut'.outcome \in {"map", "best", "suppressed"}
        /\ resolveNodesByMode(document) = Ok(derpOut'.nodes))
         => IsLastWriteWins(derpOut'.nodes,
                            config.selfHostedNodes \o RawExternal(document))]_vars

\* the external node of id self-1 took the first place, with its own data
C23_Witness ==
  /\ config.mode = "hybrid"
  /\ BuildAnswered
  /\ Len(config.selfHostedNodes) = 3
  /\ config.selfHostedNodes[1] = SELF_NODE
  /\ derpOut.nodes = <<PUBLIC_SELF_NODE, SELF_NODE_2, PUBLIC_NODE>>

(***************************************************************************)
(* Invariants of the supervisor, checked under Spec.                       *)
(***************************************************************************)

\* the subprocesses that have not exited and were not sent SIGTERM
Live == {p \in DOMAIN procs : ~procs[p].exited /\ ~procs[p].term}

\* C24: at any time at most one subprocess of the supervisor has neither
\* exited nor been sent SIGTERM.
C24_AtMostOneLive == Cardinality(Live) <= 1

\* C25: the published status never has running = true with compatible = false.
C25_RunningImpliesCompatible == status.running => status.compatible

\* C26: while a handle is held, the subprocess behind it has not delivered
\* its exit notification.
C26_HeldHandleNotExited == processRef # NoProcess => ~procs[processRef].exited

(***************************************************************************)
(* The anti-flapping bound of the relay selector, checked under DerpSpec.  *)
(***************************************************************************)

\* C27: lastSwitchAt is the time of the last change of the active node (it is
\* written at every change and at no other step), and a call that changes the
\* active node while that node is among the resolved nodes comes at least the
\* cooldown after the last change, whatever the latency maps are. The clock is
\* left free: the bound holds for a non-decreasing clock in particular.
C27_ChangesAreCooldownApart ==
  [][/\ activeNodeId' # activeNodeId
          => (SelectAnswered /\ lastSwitchAt' = derpOut'.at)
     /\ lastSwitchAt' # lastSwitchAt => activeNodeId' # activeNodeId
     /\ (/\ SelectAnswered
         /\ activeNodeId # NoNode
         /\ HasId(derpOut'.nodes, activeNodeId)
         /\ activeNodeId' # activeNodeId)
          => derpOut'.at - lastSwitchAt >= cooldownMs]_vars

\* the active node was changed exactly the cooldown after the change before
C27_Witness ==
  /\ derpOut.op = "select" /\ derpOut.outcome = "best"
  /\ derpOut.was # NoNode /\ derpOut.was # derpOut.ret
  /\ HasId(derpOut.nodes, derpOut.was)
  /\ derpOut.since > 0
  /\ derpOut.at - derpOut.since = cooldownMs
  /\ activeNodeId = derpOut.ret /\ lastSwitchAt = derpOut.at

====
